---- MODULE Spec2Model ----
(***************************************************************************)
(* Model of porta_pty.c: the native PTY shim (pty_spawn, pty_resize,        *)
(* pty_kill, pty_waitpid, pty_close, pty_get_errno).                        *)
(*                                                                          *)
(* Two execution contexts run the code of pty_spawn: the calling process    *)
(* ("parent") and the process forkpty() creates ("child").  Every statement *)
(* of pty_spawn is an action parameterised by the context that executes it, *)
(* so that which context runs which branch is decided by the code's own     *)
(* tests on pid, not by the model.  The operating system (process table,    *)
(* pseudo-terminal, environment, file system) is modelled by what POSIX     *)
(* documents for the calls the code makes.                                  *)
(***************************************************************************)
EXTENDS Integers, Sequences, FiniteSets, TLC

VARIABLES
    pc,        \* pc[p]: where context p is
    req,       \* the arguments of the pty_spawn call
    local,     \* local[p]: pty_spawn's locals in context p
    environ,   \* environ[p]: the process environment of p (name -> value)
    cwd,       \* cwd[p]: current working directory of p
    errno,     \* errno[p]: errno of p (a process context or a thread)
    fds,       \* descriptors open in the calling process
    proc,      \* kernel process-table entry of the child
    pty,       \* kernel state of the pseudo-terminal
    image,     \* what execvp put in place of the child's image
    retval,    \* retval[p]: what pty_spawn returned to its caller in p
    ret,       \* last int returned to the caller by an auxiliary operation
    wstatus,   \* the caller's *status slot of pty_waitpid
    wopts,     \* options of the pty_waitpid call in progress
    log,       \* history: the OS calls made on behalf of the child, in order
    polled     \* history: a WNOHANG pty_waitpid has found the child running

vars == <<pc, req, local, environ, cwd, errno, fds, proc, pty, image,
          retval, ret, wstatus, wopts, log, polled>>

Procs == {"parent", "child"}

\* errno is one object per thread (<errno.h>): one for the calling thread
\* ("parent"), one for the child process, and one for another thread of the
\* calling process.
OtherThread == "other"
ErrnoOwners == Procs \cup {OtherThread}

-----------------------------------------------------------------------------
(* Pointers: NULL or a reference to one value.                             *)
NULL == <<>>
Ref(x) == <<x>>
Deref(p) == p[1]

-----------------------------------------------------------------------------
(* errno values (<errno.h>, Linux numbering) and signals.                  *)
ENOENT == 2
ESRCH == 3
EBADF == 9
ECHILD == 10
EAGAIN == 11
EACCES == 13
EINVAL == 22
ENOSPC == 28
SIGKILL == 9
WNOHANG == 1

-----------------------------------------------------------------------------
(* C strings are sequences of characters.                                  *)
TERM == <<"T","E","R","M">>
XTERM_256COLOR == <<"x","t","e","r","m","-","2","5","6","c","o","l","o","r">>
FOO == <<"F","O","O">>

\* strchr(s, c): 1-based position of the first c in s, 0 for NULL.
Strchr(s, c) ==
    IF \E k \in 1..Len(s) : s[k] = c
    THEN CHOOSE k \in 1..Len(s) : s[k] = c /\ \A j \in 1..(k-1) : s[j] # c
    ELSE 0

-----------------------------------------------------------------------------
(* The process environment: a function from the names that are set to      *)
(* their values.  setenv and unsetenv reject an empty name and a name that  *)
(* holds '=' with EINVAL and change nothing (POSIX).                        *)
ValidName(name) == name # <<>> /\ Strchr(name, "=") = 0

Getenv(env, name) == IF name \in DOMAIN env THEN Ref(env[name]) ELSE NULL

Setenv(env, name, value, overwrite) ==
    IF ~ValidName(name) THEN env
    ELSE IF name \in DOMAIN env /\ overwrite = 0 THEN env
    ELSE [k \in (DOMAIN env) \cup {name} |-> IF k = name THEN value ELSE env[k]]

Unsetenv(env, name) ==
    IF ~ValidName(name) THEN env
    ELSE [k \in (DOMAIN env) \ {name} |-> env[k]]

\* errno after setenv/unsetenv called with errno = e.
EnvErrno(e, name) == IF ValidName(name) THEN e ELSE EINVAL

-----------------------------------------------------------------------------
(* Wait statuses (<sys/wait.h>): exit code in bits 8..15, signal in 0..6.   *)
W_EXITCODE(code, sig) == (code % 256) * 256 + sig
WIFEXITED(s) == s % 128 = 0
WEXITSTATUS(s) == (s \div 256) % 256
WIFSIGNALED(s) == s % 128 # 0
WTERMSIG(s) == s % 128

-----------------------------------------------------------------------------
(* The file system the calls see.                                          *)
Programs == {"/bin/prog"}
Unreadable == {"/etc/shadow"}
Directories == {"/", "/tmp"}

\* errno of execvp(file, argv) when it fails; 0 when it replaces the image.
ExecvpErrno(file) ==
    IF file \in Programs THEN 0
    ELSE IF file \in Unreadable THEN EACCES
    ELSE ENOENT

\* errno of chdir(dir) when it fails; 0 when it succeeds.
ChdirErrno(dir) == IF dir \in Directories THEN 0 ELSE ENOENT

-----------------------------------------------------------------------------
(* Terminal structures.                                                    *)
CC_MAX == 32    \* capacity of pty_termios_t.c_cc, and the cap on cc_size
NCCS == 32      \* capacity of struct termios.c_cc (<termios.h>, Linux)
B9600 == 13     \* valid baud-rate encodings (<termios.h>, Linux)
B38400 == 15
CBAUD == 4111   \* 0010017: the bits of c_cflag that hold the speed (with CBAUDEX)
CS8 == 48       \* 0000060
CREAD == 128    \* 0000200

Min(a, b) == IF a < b THEN a ELSE b

\* flags & ~CBAUD: CBAUD is bits 0..3 and bit 12.
ClearBaud(flags) ==
    flags - (flags % 16) - (IF (flags \div 4096) % 2 = 1 THEN 4096 ELSE 0)

\* The speeds cfsetispeed/cfsetospeed accept: those with (speed & ~CBAUD) = 0.
\* Any other value is refused with EINVAL and changes nothing.
ValidSpeed(speed) == speed \in 0..CBAUD /\ ClearBaud(speed) = 0

\* line 112: cfsetispeed(&term, speed).  The C library for Linux keeps the
\* speed in c_cflag's CBAUD bits as well as in c_ispeed.  An input speed of 0
\* leaves those bits alone; it is marked by IBAUD0 (bit 31) in c_iflag, which
\* tcsetattr takes out again before the attributes reach the terminal, so
\* the flag words here (all below 2^31) come through unchanged.
Cfsetispeed(term, speed) ==
    IF ~ValidSpeed(speed) THEN term
    ELSE IF speed = 0
    THEN [term EXCEPT !.c_ispeed = speed]
    ELSE [term EXCEPT !.c_ispeed = speed,
                      !.c_cflag = ClearBaud(@) + speed]

\* line 113: cfsetospeed(&term, speed)
Cfsetospeed(term, speed) ==
    IF ~ValidSpeed(speed) THEN term
    ELSE [term EXCEPT !.c_ospeed = speed,
                      !.c_cflag = ClearBaud(@) + speed]

\* errno after lines 112-113: EINVAL when a setter refused its speed (the
\* code ignores the setters' return values), else as it was.
SpeedErrno(s, e) ==
    IF ValidSpeed(s.c_ispeed) /\ ValidSpeed(s.c_ospeed) THEN e ELSE EINVAL

\* lines 101-117 with the line "term.c_lflag = termios_settings->c_lflag;"
\* left out
MakeTermios_DropsLflag(s) ==
    LET cc_size == Min(NCCS, CC_MAX)
        copied ==
            [c_iflag |-> s.c_iflag, c_oflag |-> s.c_oflag,
             c_cflag |-> s.c_cflag, c_lflag |-> 0,
             c_line |-> 0,
             c_cc |-> [k \in 1..NCCS |-> IF k <= cc_size THEN s.c_cc[k] ELSE 0],
             c_ispeed |-> 0, c_ospeed |-> 0]
    IN  Cfsetospeed(Cfsetispeed(copied, s.c_ispeed), s.c_ospeed)

\* lines 101-117: the struct termios built from *termios_settings: zeroed,
\* the four flag words and the first cc_size control characters copied, then
\* the two speed setters.
MakeTermios(s) ==
    LET cc_size == Min(NCCS, CC_MAX)
        copied ==
            [c_iflag |-> s.c_iflag, c_oflag |-> s.c_oflag,
             c_cflag |-> s.c_cflag, c_lflag |-> s.c_lflag,
             c_line |-> 0,
             c_cc |-> [k \in 1..NCCS |-> IF k <= cc_size THEN s.c_cc[k] ELSE 0],
             c_ispeed |-> 0, c_ospeed |-> 0]
    IN  Cfsetospeed(Cfsetispeed(copied, s.c_ispeed), s.c_ospeed)

\* lines 123-129: the struct winsize built from *winsize_settings.
MakeWinsize(w) ==
    [ws_row |-> w.ws_row, ws_col |-> w.ws_col,
     ws_xpixel |-> w.ws_xpixel, ws_ypixel |-> w.ws_ypixel]

\* What the pty driver gives a fresh pseudo-terminal.
DefaultTermios ==
    [c_iflag |-> 1, c_oflag |-> 1, c_cflag |-> 1, c_lflag |-> 1, c_line |-> 0,
     c_cc |-> [k \in 1..NCCS |-> 0], c_ispeed |-> B38400, c_ospeed |-> B38400]
DefaultWinsize == [ws_row |-> 0, ws_col |-> 0, ws_xpixel |-> 0, ws_ypixel |-> 0]

-----------------------------------------------------------------------------
(* The calls the model explores.                                           *)
MaxErrno == 256     \* error codes 0..MaxErrno are put through _exit and wait
MaxEnvLen == 2      \* longest override list

S_FOO_bar == <<"F","O","O","=","b","a","r">>
S_FOO_empty == <<"F","O","O","=">>
S_FOO_a_eq_b == <<"F","O","O","=","a","=","b">>
S_TERM_linux == <<"T","E","R","M","=","l","i","n","u","x">>
S_TERM_empty == <<"T","E","R","M","=">>
S_NOEQ == <<"F","O","O">>
S_NOKEY == <<"=","x">>

Entries == {S_FOO_bar, S_FOO_empty, S_FOO_a_eq_b, S_TERM_linux, S_TERM_empty,
            S_NOEQ, S_NOKEY}

EnvLists == UNION {[1..n -> Entries] : n \in 0..MaxEnvLen}

SomeTermios ==
    [c_iflag |-> 2, c_oflag |-> 3, c_cflag |-> 4, c_lflag |-> 5,
     c_cc |-> [k \in 1..CC_MAX |-> k], c_ispeed |-> B38400, c_ospeed |-> B38400]
\* Terminal attributes as a caller may fill them in: control modes that
\* already carry the speed, control modes without speed bits, differing
\* input and output speeds, an input speed of 0, and speeds given as numbers
\* rather than as encodings.
Termios(cflag, ispeed, ospeed) ==
    [c_iflag |-> 2, c_oflag |-> 3, c_cflag |-> cflag, c_lflag |-> 5,
     c_cc |-> [k \in 1..CC_MAX |-> k], c_ispeed |-> ispeed, c_ospeed |-> ospeed]
TermiosInputs ==
    {Termios(CS8 + CREAD + B38400, B38400, B38400),
     Termios(CS8 + CREAD, B38400, B38400),
     Termios(CS8 + CREAD + B38400, B9600, B38400),
     Termios(CS8 + CREAD + B38400, 0, B38400),
     Termios(CS8 + CREAD, 38400, 38400)}
SomeWinsize == [ws_row |-> 24, ws_col |-> 80, ws_xpixel |-> 640, ws_ypixel |-> 480]

Request(f, e, w, t, z) ==
    [file |-> f, argv |-> <<f>>, envp |-> e, working_dir |-> w,
     termios_settings |-> t, winsize_settings |-> z]

\* The calls explored with every auxiliary operation after them.
Requests ==
    {Request(f, e, w, t, z) :
        f \in {"/bin/prog", "/nonexistent", "/etc/shadow"},
        e \in {NULL, Ref(<<S_NOKEY, S_FOO_bar>>)},
        w \in {NULL, Ref(""), Ref("/tmp"), Ref("/nonexistent")},
        t \in {NULL, Ref(SomeTermios)},
        z \in {NULL, Ref(SomeWinsize)}}

\* The calls explored for what pty_spawn does with the override list.
EnvRequests ==
    {Request(f, Ref(e), w, NULL, NULL) :
        f \in {"/bin/prog", "/nonexistent"},
        e \in EnvLists,
        w \in {NULL, Ref("/nonexistent")}}

\* The calls explored for what pty_spawn does with the terminal attributes.
TermRequests ==
    {Request(f, Ref(<<S_FOO_bar>>), w, t, z) :
        f \in {"/bin/prog", "/nonexistent"},
        w \in {NULL, Ref("/nonexistent")},
        t \in {NULL} \cup {Ref(a) : a \in TermiosInputs},
        z \in {NULL, Ref(SomeWinsize)}}

EmptyEnv == [k \in {} |-> <<>>]
FullEnv == [k \in {FOO, TERM} |-> IF k = TERM THEN <<"v","t">> ELSE <<"o","l","d">>]
InheritedEnvs ==
    {EmptyEnv,
     [k \in {TERM} |-> <<"v","t">>],
     [k \in {FOO} |-> <<"o","l","d">>],
     FullEnv}

MasterFd == 3       \* the descriptor openpty hands out
ChildPid == 100     \* the process id fork hands out
Sizes == {<<30, 100>>, <<50, 132>>}
Signals == {0, SIGKILL}
ProgramExitCodes == {0, 2}

NoLocals ==
    [result |-> [master_fd |-> -1, pid |-> -1, error |-> 0],
     term_ptr |-> NULL, ws_ptr |-> NULL, master_fd |-> -1, pid |-> -1, i |-> 0]

InitWith(requests, envs) ==
    /\ pc = [p \in Procs |-> IF p = "parent" THEN "caller" ELSE "none"]
    /\ req \in requests
    /\ local = [p \in Procs |-> NoLocals]
    /\ \E e \in envs :
          environ = [p \in Procs |-> IF p = "parent" THEN e ELSE EmptyEnv]
    /\ cwd = [p \in Procs |-> IF p = "parent" THEN "/" ELSE ""]
    /\ errno = [p \in ErrnoOwners |-> 0]
    /\ fds = {}
    /\ proc = [pid |-> -1, state |-> "none", status |-> 0]
    /\ pty = [alloc |-> FALSE, term |-> DefaultTermios, ws |-> DefaultWinsize]
    /\ image = NULL
    /\ retval = [p \in Procs |-> NULL]
    /\ ret = 0
    /\ wstatus = 0
    /\ wopts = 0
    /\ log = <<>>
    /\ polled = FALSE

Init == InitWith(Requests, {EmptyEnv})
InitEnv == InitWith(EnvRequests, InheritedEnvs)
InitTerm == InitWith(TermRequests, {EmptyEnv})

-----------------------------------------------------------------------------
(* pty_spawn.                                                              *)

\* lines 95-132: the result's initial value and the termios/winsize set-up.
PtySpawnEnter(self) ==
    /\ pc[self] = "caller"
    /\ retval[self] = NULL
    /\ proc.state = "none"
    /\ local' = [local EXCEPT ![self] =
          [result |-> [master_fd |-> -1, pid |-> -1, error |-> 0],
           term_ptr |-> IF req.termios_settings # NULL
                        THEN Ref(MakeTermios(Deref(req.termios_settings)))
                        ELSE NULL,
           ws_ptr |-> IF req.winsize_settings # NULL
                      THEN Ref(MakeWinsize(Deref(req.winsize_settings)))
                      ELSE NULL,
           master_fd |-> -1, pid |-> -1, i |-> 0]]
    /\ errno' = IF req.termios_settings # NULL
                THEN [errno EXCEPT ![self] =
                         SpeedErrno(Deref(req.termios_settings), @)]
                ELSE errno
    /\ pc' = [pc EXCEPT ![self] = "forkpty"]
    /\ UNCHANGED <<polled, req, environ, cwd, fds, proc, pty, image, retval,
                   ret, wstatus, wopts, log>>

\* ForkptyFails when the master descriptor is left open.
ForkptyFails_LeaksMaster(self, e) ==
    /\ errno' = [errno EXCEPT ![self] = e]
    /\ local' = [local EXCEPT ![self].pid = -1]
    /\ pc' = [pc EXCEPT ![self] = "forked"]
    /\ fds' = fds \cup {MasterFd}
    /\ UNCHANGED <<polled, req, environ, cwd, proc, pty, image, retval,
                   ret, wstatus, wopts, log>>

\* forkpty(&master_fd, NULL, term_ptr, ws_ptr) when openpty() or fork()
\* fails with e: -1 is returned, errno is e, and the descriptors openpty()
\* opened, if any, are closed again.
ForkptyFails(self, e) ==
    /\ errno' = [errno EXCEPT ![self] = e]
    /\ local' = [local EXCEPT ![self].pid = -1]
    /\ pc' = [pc EXCEPT ![self] = "forked"]
    /\ UNCHANGED <<polled, req, environ, cwd, fds, proc, pty, image, retval,
                   ret, wstatus, wopts, log>>

\* forkpty() when it succeeds: the slave side is configured, the process is
\* duplicated; the parent keeps the master and sees the child's pid, the
\* child has the slave as its controlling terminal and sees 0.
ForkptySucceeds(self) ==
    /\ pty' = [alloc |-> TRUE,
               term |-> IF local[self].term_ptr # NULL
                        THEN Deref(local[self].term_ptr) ELSE DefaultTermios,
               ws |-> IF local[self].ws_ptr # NULL
                      THEN Deref(local[self].ws_ptr) ELSE DefaultWinsize]
    /\ fds' = fds \cup {MasterFd}
    /\ proc' = [pid |-> ChildPid, state |-> "alive", status |-> 0]
    /\ local' = [p \in Procs |->
          IF p = self
          THEN [local[self] EXCEPT !.master_fd = MasterFd, !.pid = ChildPid]
          ELSE [local[self] EXCEPT !.pid = 0]]
    /\ pc' = [p \in Procs |-> "forked"]
    /\ environ' = [p \in Procs |-> environ[self]]
    /\ cwd' = [p \in Procs |-> cwd[self]]
    /\ errno' = [errno EXCEPT !["child"] = errno[self]]
    /\ log' = Append(log, "forkpty")
    /\ UNCHANGED <<polled, req, image, retval, ret, wstatus, wopts>>

\* line 133
Forkpty(self) ==
    /\ pc[self] = "forkpty"
    /\ \/ ForkptyFails(self, ENOSPC)
       \/ ForkptyFails(self, EAGAIN)
       \/ ForkptySucceeds(self)

\* "return result;" in context self.
Return(self, result) ==
    /\ local' = [local EXCEPT ![self].result = result]
    /\ retval' = [retval EXCEPT ![self] = Ref(result)]
    /\ pc' = [pc EXCEPT ![self] = "caller"]

\* SpawnFailed without "result.error = errno".
SpawnFailed_NoErrno(self) ==
    /\ pc[self] = "forked"
    /\ local[self].pid = -1
    /\ Return(self, local[self].result)
    /\ UNCHANGED <<polled, req, environ, cwd, errno, fds, proc, pty, image,
                   ret, wstatus, wopts, log>>

\* lines 135-139
SpawnFailed(self) ==
    /\ pc[self] = "forked"
    /\ local[self].pid = -1
    /\ Return(self, [local[self].result EXCEPT !.error = errno[self]])
    /\ UNCHANGED <<polled, req, environ, cwd, errno, fds, proc, pty, image,
                   ret, wstatus, wopts, log>>

\* lines 189-194
ParentBranch(self) ==
    Return(self, [master_fd |-> local[self].master_fd,
                  pid |-> local[self].pid,
                  error |-> 0])

\* SpawnParent when it looks at how the child fared before it returns.
SpawnParent_ReportsChild(self) ==
    /\ pc[self] = "forked"
    /\ local[self].pid # -1
    /\ local[self].pid # 0
    /\ IF proc.state = "zombie"
       THEN Return(self, [master_fd |-> -1, pid |-> -1,
                          error |-> WEXITSTATUS(proc.status)])
       ELSE ParentBranch(self)
    /\ UNCHANGED <<polled, req, environ, cwd, errno, fds, proc, pty, image,
                   ret, wstatus, wopts, log>>

SpawnParent(self) ==
    /\ pc[self] = "forked"
    /\ local[self].pid # -1
    /\ local[self].pid # 0
    /\ ParentBranch(self)
    /\ UNCHANGED <<polled, req, environ, cwd, errno, fds, proc, pty, image,
                   ret, wstatus, wopts, log>>

\* _exit(1) whatever the code.
Exit_One(self, code) ==
    /\ pc' = [pc EXCEPT ![self] = "exited"]
    /\ proc' = [proc EXCEPT !.state = "zombie", !.status = W_EXITCODE(1, 0)]

\* _exit(code << 8): the code placed where a wait status has it, so that
\* its low 8 bits, all that _exit keeps, are 0
Exit_Shifted(self, code) ==
    /\ pc' = [pc EXCEPT ![self] = "exited"]
    /\ proc' = [proc EXCEPT !.state = "zombie",
                            !.status = W_EXITCODE(code * 256, 0)]

\* _exit(code) in context self: the process becomes a zombie whose wait
\* status carries the low 8 bits of code.
Exit(self, code) ==
    /\ pc' = [pc EXCEPT ![self] = "exited"]
    /\ proc' = [proc EXCEPT !.state = "zombie", !.status = W_EXITCODE(code, 0)]

\* ChildChdir without "_exit(errno)" after a failed chdir.
ChildChdir_IgnoresFailure(self) ==
    /\ pc[self] = "forked"
    /\ local[self].pid = 0
    /\ IF req.working_dir # NULL /\ Deref(req.working_dir) # ""
       THEN LET dir == Deref(req.working_dir)
                e == ChdirErrno(dir)
            IN  /\ IF e # 0
                   THEN /\ errno' = [errno EXCEPT ![self] = e]
                        /\ UNCHANGED cwd
                   ELSE /\ cwd' = [cwd EXCEPT ![self] = dir]
                        /\ UNCHANGED errno
                /\ log' = Append(log, "chdir")
       ELSE UNCHANGED <<cwd, errno, log>>
    /\ pc' = [pc EXCEPT ![self] = "term"]
    /\ UNCHANGED <<polled, req, local, environ, fds, proc, pty, image, retval,
                   ret, wstatus, wopts>>

\* lines 147-152
ChildChdir(self) ==
    /\ pc[self] = "forked"
    /\ local[self].pid = 0
    /\ IF req.working_dir # NULL /\ Deref(req.working_dir) # ""
       THEN LET dir == Deref(req.working_dir)
                e == ChdirErrno(dir)
            IN  IF e # 0
                THEN /\ errno' = [errno EXCEPT ![self] = e]
                     /\ Exit(self, errno'[self])
                     /\ log' = Append(log, "chdir")
                     /\ UNCHANGED cwd
                ELSE /\ cwd' = [cwd EXCEPT ![self] = dir]
                     /\ pc' = [pc EXCEPT ![self] = "term"]
                     /\ log' = Append(log, "chdir")
                     /\ UNCHANGED <<errno, proc>>
       ELSE /\ pc' = [pc EXCEPT ![self] = "term"]
            /\ UNCHANGED <<cwd, errno, proc, log>>
    /\ UNCHANGED <<polled, req, local, environ, fds, pty, image, retval,
                   ret, wstatus, wopts>>

\* ChildTermDefault when the default replaces a TERM that is already set.
ChildTermDefault_Overwrites(self) ==
    /\ pc[self] = "term"
    /\ environ' = [environ EXCEPT ![self] =
          Setenv(environ[self], TERM, XTERM_256COLOR, 1)]
    /\ pc' = [pc EXCEPT ![self] = "env"]
    /\ local' = [local EXCEPT ![self].i = 0]
    /\ log' = Append(log, "term")
    /\ UNCHANGED <<polled, req, cwd, errno, fds, proc, pty, image, retval,
                   ret, wstatus, wopts>>

\* ChildTermDefault run on the caller's environment instead of the
\* executing context's.
ChildTermDefault_InParent(self) ==
    /\ pc[self] = "term"
    /\ environ' = [environ EXCEPT !["parent"] =
          IF Getenv(environ["parent"], TERM) = NULL
          THEN Setenv(environ["parent"], TERM, XTERM_256COLOR, 0)
          ELSE environ["parent"]]
    /\ pc' = [pc EXCEPT ![self] = "env"]
    /\ local' = [local EXCEPT ![self].i = 0]
    /\ log' = Append(log, "term")
    /\ UNCHANGED <<polled, req, cwd, errno, fds, proc, pty, image, retval,
                   ret, wstatus, wopts>>

\* lines 154-157
ChildTermDefault(self) ==
    /\ pc[self] = "term"
    /\ environ' = [environ EXCEPT ![self] =
          IF Getenv(environ[self], TERM) = NULL
          THEN Setenv(environ[self], TERM, XTERM_256COLOR, 0)
          ELSE environ[self]]
    /\ pc' = [pc EXCEPT ![self] = "env"]
    /\ local' = [local EXCEPT ![self].i = 0]
    /\ log' = Append(log, "term")
    /\ UNCHANGED <<polled, req, cwd, errno, fds, proc, pty, image, retval,
                   ret, wstatus, wopts>>

\* ApplyEntry when an empty value is stored instead of unsetting the key.
ApplyEntry_KeepsEmpty(env, entry) ==
    LET eq == Strchr(entry, "=")
    IN  IF eq # 0
        THEN Setenv(env, SubSeq(entry, 1, eq - 1),
                    SubSeq(entry, eq + 1, Len(entry)), 1)
        ELSE env

\* lines 163-178: what one entry of envp does to the environment.
ApplyEntry(env, entry) ==
    LET eq == Strchr(entry, "=")
    IN  IF eq # 0
        THEN LET key_len == eq - 1
                 key == SubSeq(entry, 1, key_len)
                 value == SubSeq(entry, eq + 1, Len(entry))
             IN  IF value = <<>>
                 THEN Unsetenv(env, key)
                 ELSE Setenv(env, key, value, 1)
        ELSE env

\* errno after that entry.
ApplyEntryErrno(e, entry) ==
    LET eq == Strchr(entry, "=")
    IN  IF eq # 0 THEN EnvErrno(e, SubSeq(entry, 1, eq - 1)) ELSE e

\* MoreEntries when the loop over envp is left at once.
MoreEntries_None(self) == FALSE

\* line 161: envp[i] != NULL
MoreEntries(self) ==
    /\ req.envp # NULL
    /\ local[self].i < Len(Deref(req.envp))

\* ChildEnvEntry with the TERM default of lines 155-157 at the end of the
\* loop body instead of in front of the loop
ChildEnvEntry_DefaultsTermAfter(self) ==
    /\ pc[self] = "env"
    /\ MoreEntries(self)
    /\ LET entry == Deref(req.envp)[local[self].i + 1]
           applied == ApplyEntry(environ[self], entry)
       IN  /\ environ' = [environ EXCEPT ![self] =
                 IF Getenv(applied, TERM) = NULL
                 THEN Setenv(applied, TERM, XTERM_256COLOR, 0)
                 ELSE applied]
           /\ errno' = [errno EXCEPT ![self] = ApplyEntryErrno(errno[self], entry)]
    /\ local' = [local EXCEPT ![self].i = local[self].i + 1]
    /\ log' = Append(log, "override")
    /\ UNCHANGED <<polled, pc, req, cwd, fds, proc, pty, image, retval,
                   ret, wstatus, wopts>>

\* ChildEnvEntry with "else break;" for an entry without '='
ChildEnvEntry_StopsAtNoEq(self) ==
    /\ pc[self] = "env"
    /\ MoreEntries(self)
    /\ LET entry == Deref(req.envp)[local[self].i + 1]
       IN  /\ environ' = [environ EXCEPT ![self] = ApplyEntry(environ[self], entry)]
           /\ errno' = [errno EXCEPT ![self] = ApplyEntryErrno(errno[self], entry)]
           /\ local' = [local EXCEPT ![self].i =
                 IF Strchr(entry, "=") = 0 THEN Len(Deref(req.envp))
                 ELSE local[self].i + 1]
    /\ log' = Append(log, "override")
    /\ UNCHANGED <<polled, pc, req, cwd, fds, proc, pty, image, retval,
                   ret, wstatus, wopts>>

\* lines 159-180, one iteration of the loop
ChildEnvEntry(self) ==
    /\ pc[self] = "env"
    /\ MoreEntries(self)
    /\ LET entry == Deref(req.envp)[local[self].i + 1]
       IN  /\ environ' = [environ EXCEPT ![self] = ApplyEntry(environ[self], entry)]
           /\ errno' = [errno EXCEPT ![self] = ApplyEntryErrno(errno[self], entry)]
    /\ local' = [local EXCEPT ![self].i = local[self].i + 1]
    /\ log' = Append(log, "override")
    /\ UNCHANGED <<polled, pc, req, cwd, fds, proc, pty, image, retval,
                   ret, wstatus, wopts>>

\* line 183, execvp succeeds: the image is replaced
ChildExecvp(self) ==
    /\ pc[self] = "env"
    /\ ~MoreEntries(self)
    /\ ExecvpErrno(req.file) = 0
    /\ image' = Ref([file |-> req.file, argv |-> req.argv,
                     env |-> environ[self], cwd |-> cwd[self]])
    /\ pc' = [pc EXCEPT ![self] = "image"]
    /\ log' = Append(log, "execvp")
    /\ UNCHANGED <<polled, req, local, environ, cwd, errno, fds, proc, pty, retval,
                   ret, wstatus, wopts>>

\* ChildExecvpFailed without "_exit(errno)": control falls out of the
\* "if (pid == 0)" block into lines 189-194.
ChildExecvpFailed_FallsThrough(self) ==
    /\ pc[self] = "env"
    /\ ~MoreEntries(self)
    /\ ExecvpErrno(req.file) # 0
    /\ errno' = [errno EXCEPT ![self] = ExecvpErrno(req.file)]
    /\ ParentBranch(self)
    /\ log' = Append(log, "execvp")
    /\ UNCHANGED <<polled, req, environ, cwd, fds, proc, pty, image,
                   ret, wstatus, wopts>>

\* lines 183-186, execvp fails
ChildExecvpFailed(self) ==
    /\ pc[self] = "env"
    /\ ~MoreEntries(self)
    /\ ExecvpErrno(req.file) # 0
    /\ errno' = [errno EXCEPT ![self] = ExecvpErrno(req.file)]
    /\ Exit(self, errno'[self])
    /\ log' = Append(log, "execvp")
    /\ UNCHANGED <<polled, req, local, environ, cwd, fds, pty, image, retval,
                   ret, wstatus, wopts>>

\* The target program, once running, exits when it likes.
ProgramExit(self, code) ==
    /\ pc[self] = "image"
    /\ Exit(self, code)
    /\ UNCHANGED <<polled, req, local, environ, cwd, errno, fds, pty, image, retval,
                   ret, wstatus, wopts, log>>

-----------------------------------------------------------------------------
(* The auxiliary operations.  The caller passes them what pty_spawn         *)
(* returned: result.pid and result.master_fd, valid or not.                 *)
Returned(p) == retval[p] # NULL
Spawned(self) == pc[self] = "caller" /\ Returned(self)
ResultPid(self) == Deref(retval[self]).pid
ResultFd(self) == Deref(retval[self]).master_fd

\* Whether waitpid/kill with this pid names the child: its own pid, or -1
\* (any child for waitpid, every process for kill).
NamesChild(pid) == pid = proc.pid \/ pid = -1

\* line 245: the caller enters pty_waitpid(result.pid, &status, options)
PtyWaitpidCall(self, options) ==
    /\ Spawned(self)
    /\ pc' = [pc EXCEPT ![self] = "waitpid"]
    /\ wopts' = options
    /\ UNCHANGED <<polled, req, local, environ, cwd, errno, fds, proc, pty, image,
                   retval, ret, wstatus, log>>

\* pty_waitpid with "waitpid(pid, status, 0)": the options are dropped, so a
\* poll of a running child waits like a blocking call
PtyWaitpid_DropsOptions(self) ==
    /\ pc[self] = "waitpid"
    /\ \/ /\ NamesChild(ResultPid(self))
          /\ proc.state = "zombie"
          /\ ret' = proc.pid
          /\ wstatus' = proc.status
          /\ proc' = [proc EXCEPT !.state = "reaped"]
          /\ UNCHANGED errno
       \/ /\ ~NamesChild(ResultPid(self)) \/ proc.state \in {"none", "reaped"}
          /\ ret' = -1
          /\ errno' = [errno EXCEPT ![self] = ECHILD]
          /\ UNCHANGED <<wstatus, proc>>
    /\ pc' = [pc EXCEPT ![self] = "caller"]
    /\ wopts' = 0
    /\ UNCHANGED <<polled, req, local, environ, cwd, fds, pty, image, retval, log>>

\* lines 245-248: waitpid(pid, status, options) returns.  With a live child
\* and options = 0 it does not return yet.
PtyWaitpid(self) ==
    /\ pc[self] = "waitpid"
    /\ \/ /\ NamesChild(ResultPid(self))
          /\ proc.state = "zombie"
          /\ ret' = proc.pid
          /\ wstatus' = proc.status
          /\ proc' = [proc EXCEPT !.state = "reaped"]
          /\ UNCHANGED <<errno, polled>>
       \/ /\ NamesChild(ResultPid(self))
          /\ proc.state = "alive"
          /\ wopts = WNOHANG
          /\ ret' = 0
          /\ polled' = TRUE
          /\ UNCHANGED <<wstatus, proc, errno>>
       \/ /\ ~NamesChild(ResultPid(self)) \/ proc.state \in {"none", "reaped"}
          /\ ret' = -1
          /\ errno' = [errno EXCEPT ![self] = ECHILD]
          /\ UNCHANGED <<wstatus, proc, polled>>
    /\ pc' = [pc EXCEPT ![self] = "caller"]
    /\ wopts' = 0
    /\ UNCHANGED <<req, local, environ, cwd, fds, pty, image, retval, log>>

\* What kill(pid, signal) returns when pid names no process of the model:
\* -1 (ESRCH); for pid = -1, the broadcast to every process the caller may
\* signal, also 0 when there are such processes besides the child.
KillReturns(pid) == IF pid = -1 THEN {0, -1} ELSE {-1}

\* pty_kill with "if (pid <= 0) { errno = EINVAL; return -1; }" in front
PtyKill_RejectsSentinel(self, signal) ==
    /\ Spawned(self)
    /\ IF ResultPid(self) <= 0
       THEN /\ ret' = -1
            /\ errno' = [errno EXCEPT ![self] = EINVAL]
            /\ UNCHANGED <<proc, pc>>
       ELSE IF proc.state \in {"alive", "zombie"}
       THEN /\ ret' = 0
            /\ UNCHANGED errno
            /\ IF proc.state = "alive" /\ signal # 0
               THEN /\ proc' = [proc EXCEPT !.state = "zombie",
                                            !.status = W_EXITCODE(0, signal)]
                    /\ pc' = [pc EXCEPT !["child"] = "exited"]
               ELSE UNCHANGED <<proc, pc>>
       ELSE /\ ret' = -1
            /\ errno' = [errno EXCEPT ![self] = ESRCH]
            /\ UNCHANGED <<proc, pc>>
    /\ UNCHANGED <<polled, req, local, environ, cwd, fds, pty, image, retval,
                   wstatus, wopts, log>>

\* lines 229-232: kill(pid, signal)
PtyKill(self, signal) ==
    /\ Spawned(self)
    /\ IF NamesChild(ResultPid(self)) /\ proc.state \in {"alive", "zombie"}
       THEN /\ ret' = 0
            /\ UNCHANGED errno
            /\ IF proc.state = "alive" /\ signal # 0
               THEN /\ proc' = [proc EXCEPT !.state = "zombie",
                                            !.status = W_EXITCODE(0, signal)]
                    /\ pc' = [pc EXCEPT !["child"] = "exited"]
               ELSE UNCHANGED <<proc, pc>>
       ELSE /\ \E r \in KillReturns(ResultPid(self)) :
                 /\ ret' = r
                 /\ errno' = IF r = -1 THEN [errno EXCEPT ![self] = ESRCH]
                              ELSE errno
            /\ UNCHANGED <<proc, pc>>
    /\ UNCHANGED <<polled, req, local, environ, cwd, fds, pty, image, retval,
                   wstatus, wopts, log>>

\* pty_resize with "ws.ws_row = cols; ws.ws_col = rows;"
PtyResize_SwapsRowsCols(self, rows, cols) ==
    /\ Spawned(self)
    /\ IF ResultFd(self) \in fds
       THEN /\ pty' = [pty EXCEPT !.ws = [ws_row |-> cols, ws_col |-> rows,
                                          ws_xpixel |-> 0, ws_ypixel |-> 0]]
            /\ ret' = 0
            /\ UNCHANGED errno
       ELSE /\ ret' = -1
            /\ errno' = [errno EXCEPT ![self] = EBADF]
            /\ UNCHANGED pty
    /\ UNCHANGED <<polled, pc, req, local, environ, cwd, fds, proc, image, retval,
                   wstatus, wopts, log>>

\* pty_resize without "ws.ws_xpixel = 0; ws.ws_ypixel = 0;", on a winsize
\* read from the terminal first
PtyResize_KeepsPixels(self, rows, cols) ==
    /\ Spawned(self)
    /\ IF ResultFd(self) \in fds
       THEN /\ pty' = [pty EXCEPT !.ws.ws_row = rows, !.ws.ws_col = cols]
            /\ ret' = 0
            /\ UNCHANGED errno
       ELSE /\ ret' = -1
            /\ errno' = [errno EXCEPT ![self] = EBADF]
            /\ UNCHANGED pty
    /\ UNCHANGED <<polled, pc, req, local, environ, cwd, fds, proc, image, retval,
                   wstatus, wopts, log>>

\* lines 208-217: ioctl(master_fd, TIOCSWINSZ, &ws)
PtyResize(self, rows, cols) ==
    /\ Spawned(self)
    /\ IF ResultFd(self) \in fds
       THEN /\ pty' = [pty EXCEPT !.ws = [ws_row |-> rows, ws_col |-> cols,
                                          ws_xpixel |-> 0, ws_ypixel |-> 0]]
            /\ ret' = 0
            /\ UNCHANGED errno
       ELSE /\ ret' = -1
            /\ errno' = [errno EXCEPT ![self] = EBADF]
            /\ UNCHANGED pty
    /\ UNCHANGED <<polled, pc, req, local, environ, cwd, fds, proc, image, retval,
                   wstatus, wopts, log>>

\* lines 259-262: close(master_fd)
PtyClose(self) ==
    /\ Spawned(self)
    /\ IF ResultFd(self) \in fds
       THEN /\ fds' = fds \ {ResultFd(self)}
            /\ ret' = 0
            /\ UNCHANGED errno
       ELSE /\ ret' = -1
            /\ errno' = [errno EXCEPT ![self] = EBADF]
            /\ UNCHANGED fds
    /\ UNCHANGED <<polled, pc, req, local, environ, cwd, proc, pty, image, retval,
                   wstatus, wopts, log>>

\* lines 271-274
PtyGetErrno(self) ==
    /\ Spawned(self)
    /\ ret' = errno[self]
    /\ UNCHANGED <<polled, pc, req, local, environ, cwd, errno, fds, proc, pty, image,
                   retval, wstatus, wopts, log>>

-----------------------------------------------------------------------------
(* Another thread of the calling process using the library while the       *)
(* caller does: it passes the same result, shares the descriptors and the  *)
(* child with the caller, and has its own errno.  What the calls return to *)
(* it is not kept.                                                          *)

\* pty_close in a library whose errno is one variable of the process
ThreadPtyClose_SharedErrno(t) ==
    /\ Returned("parent")
    /\ IF ResultFd("parent") \in fds
       THEN /\ fds' = fds \ {ResultFd("parent")}
            /\ UNCHANGED errno
       ELSE /\ errno' = [errno EXCEPT ![t] = EBADF, !["parent"] = EBADF]
            /\ UNCHANGED fds
    /\ UNCHANGED <<polled, pc, req, local, environ, cwd, proc, pty, image, retval,
                   ret, wstatus, wopts, log>>

\* lines 259-262: close(master_fd), on thread t
ThreadPtyClose(t) ==
    /\ Returned("parent")
    /\ IF ResultFd("parent") \in fds
       THEN /\ fds' = fds \ {ResultFd("parent")}
            /\ UNCHANGED errno
       ELSE /\ errno' = [errno EXCEPT ![t] = EBADF]
            /\ UNCHANGED fds
    /\ UNCHANGED <<polled, pc, req, local, environ, cwd, proc, pty, image, retval,
                   ret, wstatus, wopts, log>>

\* lines 229-232: kill(pid, signal), on thread t
ThreadPtyKill(t, signal) ==
    /\ Returned("parent")
    /\ IF NamesChild(ResultPid("parent")) /\ proc.state \in {"alive", "zombie"}
       THEN /\ UNCHANGED errno
            /\ IF proc.state = "alive" /\ signal # 0
               THEN /\ proc' = [proc EXCEPT !.state = "zombie",
                                            !.status = W_EXITCODE(0, signal)]
                    /\ pc' = [pc EXCEPT !["child"] = "exited"]
               ELSE UNCHANGED <<proc, pc>>
       ELSE /\ \E r \in KillReturns(ResultPid("parent")) :
                 errno' = IF r = -1 THEN [errno EXCEPT ![t] = ESRCH] ELSE errno
            /\ UNCHANGED <<proc, pc>>
    /\ UNCHANGED <<polled, req, local, environ, cwd, fds, pty, image, retval,
                   ret, wstatus, wopts, log>>

ThreadStep(t) ==
    \/ ThreadPtyClose(t)
    \/ \E signal \in Signals : ThreadPtyKill(t, signal)

-----------------------------------------------------------------------------
SpawnStep(self) ==
    \/ PtySpawnEnter(self)
    \/ Forkpty(self)
    \/ SpawnFailed(self)
    \/ SpawnParent(self)

ChildStep(self) ==
    \/ ChildChdir(self)
    \/ ChildTermDefault(self)
    \/ ChildEnvEntry(self)
    \/ ChildExecvp(self)
    \/ ChildExecvpFailed(self)

CallerStep(self) ==
    \/ \E options \in {0, WNOHANG} : PtyWaitpidCall(self, options)
    \/ PtyWaitpid(self)
    \/ \E signal \in Signals : PtyKill(self, signal)
    \/ \E sz \in Sizes : PtyResize(self, sz[1], sz[2])
    \/ PtyClose(self)
    \/ PtyGetErrno(self)

Next ==
    \/ \E self \in Procs : SpawnStep(self)
    \/ \E self \in Procs : ChildStep(self)
    \/ \E self \in Procs : CallerStep(self)
    \/ \E self \in Procs, code \in ProgramExitCodes : ProgramExit(self, code)

Spec == Init /\ [][Next]_vars

\* The calls explored under fairness.
FairRequests ==
    {Request(f, e, w, NULL, NULL) :
        f \in {"/bin/prog", "/nonexistent", "/etc/shadow"},
        e \in {NULL, Ref(<<S_NOKEY, S_FOO_bar>>)},
        w \in {NULL, Ref("/tmp"), Ref("/nonexistent")}}
InitFair == InitWith(FairRequests, {EmptyEnv})

\* The kernel schedules the child, so each step the child can take is taken;
\* and waitpid returns once it has something to return.
Fairness ==
    /\ WF_vars(ChildStep("child"))
    /\ WF_vars(PtyWaitpid("parent"))

FairSpec == InitFair /\ [][Next]_vars /\ Fairness

\* One pty_spawn call, followed to the end of both contexts.
NextSpawn ==
    \/ \E self \in Procs : SpawnStep(self)
    \/ \E self \in Procs : ChildStep(self)
    \/ \E self \in Procs, code \in ProgramExitCodes : ProgramExit(self, code)

SpecEnv == InitEnv /\ [][NextSpawn]_vars

\* pty_spawn alone, over the terminal attributes.
SpecTerm == InitTerm /\ [][NextSpawn]_vars

\* The whole library with a second thread in the calling process.
NextThreads ==
    \/ Next
    \/ ThreadStep(OtherThread)

SpecThreads == InitFair /\ [][NextThreads]_vars

-----------------------------------------------------------------------------
(* Properties.                                                             *)

InLog(ev) == \E k \in 1..Len(log) : log[k] = ev
Forked == proc.state # "none"
Result(p) == Deref(retval[p])

\* C1: every result pty_spawn has returned is all-or-nothing: pid >= 0,
\* master_fd >= 0 and error = 0, or pid = -1, master_fd = -1 and error # 0.
C1_AllOrNothing ==
    \A p \in Procs :
        Returned(p) =>
            \/ Result(p).pid >= 0 /\ Result(p).master_fd >= 0 /\ Result(p).error = 0
            \/ Result(p).pid = -1 /\ Result(p).master_fd = -1 /\ Result(p).error # 0

\* A failed pty_spawn has returned.
C1_Witness == Returned("parent") /\ Result("parent").pid = -1

\* C2: the child context never returns from pty_spawn (it is never back in
\* the caller's code, nor in any other library call) and never runs the
\* parent branch: its result keeps its initial value, whatever chdir and
\* execvp do.
C2_ChildNeverReturns ==
    /\ pc["child"] \in {"none", "forked", "term", "env", "image", "exited"}
    /\ ~Returned("child")
    /\ local["child"].result = [master_fd |-> -1, pid |-> -1, error |-> 0]

\* The child has terminated itself after a failed execvp.
C2_Witness ==
    /\ pc["child"] = "exited"
    /\ InLog("execvp")
    /\ image = NULL
    /\ WIFEXITED(proc.status)
    /\ WEXITSTATUS(proc.status) = ENOENT

Count(ev) == Cardinality({k \in 1..Len(log) : log[k] = ev})
Rank(ev) ==
    CASE ev = "forkpty" -> 1
      [] ev = "chdir" -> 2
      [] ev = "term" -> 3
      [] ev = "override" -> 4
      [] ev = "execvp" -> 5
WantsChdir == req.working_dir # NULL /\ Deref(req.working_dir) # ""
NumOverrides == IF req.envp = NULL THEN 0 ELSE Len(Deref(req.envp))

\* C3: the steps made for the child happen in the order terminal/window
\* configuration (inside forkpty), chdir, TERM default, overrides, execvp;
\* and once execvp has been attempted, none of them is pending: the
\* pseudo-terminal carries the supplied attributes, the directory change
\* (when one was asked for) has been made, the TERM default has run and
\* every entry of envp has been processed.  The supplied attributes and
\* window size are on the pseudo-terminal from the moment the child exists.
C3_SetupBeforeExec ==
    /\ [](\A a, b \in 1..Len(log) :
            a < b => /\ Rank(log[a]) <= Rank(log[b])
                     /\ Rank(log[a]) = Rank(log[b]) => log[a] = "override")
    /\ [](InLog("execvp") =>
            /\ Count("forkpty") = 1
            /\ pty.alloc
            /\ req.termios_settings # NULL =>
                  pty.term = MakeTermios(Deref(req.termios_settings))
            /\ Count("chdir") = (IF WantsChdir THEN 1 ELSE 0)
            /\ WantsChdir => cwd["child"] = Deref(req.working_dir)
            /\ Count("term") = 1
            /\ Count("override") = NumOverrides
            /\ local["child"].i = NumOverrides)
    /\ [][(~Forked /\ Forked') =>
            /\ ~InLog("execvp")'
            /\ req.termios_settings # NULL =>
                  pty'.term = MakeTermios(Deref(req.termios_settings))
            /\ req.winsize_settings # NULL =>
                  pty'.ws = MakeWinsize(Deref(req.winsize_settings))]_vars

\* execvp has been attempted after every kind of step.
C3_Witness ==
    /\ log = <<"forkpty", "chdir", "term", "override", "override", "execvp">>
    /\ req.termios_settings # NULL
    /\ req.winsize_settings # NULL

ChdirFailed == InLog("chdir") /\ ChdirErrno(Deref(req.working_dir)) # 0

\* C5: when a non-empty working directory is supplied and chdir fails, the
\* child has terminated with chdir's errno as exit status, its environment
\* is the inherited one, and neither the TERM default, an override nor
\* execvp has happened.  When working_dir is NULL or empty, chdir is never
\* called and the child keeps the parent's directory.
C5_ChdirFailure ==
    /\ ChdirFailed =>
          /\ pc["child"] = "exited"
          /\ proc.state \in {"zombie", "reaped"}
          /\ WIFEXITED(proc.status)
          /\ WEXITSTATUS(proc.status) = ChdirErrno(Deref(req.working_dir))
          /\ environ["child"] = environ["parent"]
          /\ ~InLog("term") /\ ~InLog("override") /\ ~InLog("execvp")
          /\ image = NULL
    /\ (Forked /\ ~WantsChdir) =>
          /\ ~InLog("chdir")
          /\ cwd["child"] = cwd["parent"]
          /\ image # NULL => Deref(image).cwd = cwd["parent"]

\* chdir has failed in a call that also asks for overrides.
C5_Witness ==
    /\ ChdirFailed
    /\ req.envp # NULL
    /\ pc["child"] = "exited"

ExecFailed == InLog("execvp") /\ image = NULL

\* The caller is blocked in pty_waitpid(pid, &status, 0) on a child whose
\* execvp has failed or is going to fail.
BlockedOnFailingChild ==
    /\ pc["parent"] = "waitpid"
    /\ wopts = 0
    /\ ResultPid("parent") = proc.pid
    /\ \/ ExecFailed /\ proc.state = "zombie"
       \/ /\ proc.state = "alive"
          /\ ExecvpErrno(req.file) # 0
          /\ ~(WantsChdir /\ ChdirErrno(Deref(req.working_dir)) # 0)

WaitReturnedExecErrno ==
    /\ pc["parent"] = "caller"
    /\ ret = proc.pid
    /\ proc.state = "reaped"
    /\ WIFEXITED(wstatus)
    /\ WEXITSTATUS(wstatus) = ExecvpErrno(req.file)

\* C4: when execvp fails the child has terminated with execvp's errno as
\* its exit status (ENOENT for a path that does not exist), and a blocking
\* pty_waitpid on the child's pid eventually returns that pid with that exit
\* status.
C4_ExecFailureReported ==
    /\ [](ExecFailed =>
            /\ pc["child"] = "exited"
            /\ proc.state \in {"zombie", "reaped"}
            /\ WIFEXITED(proc.status)
            /\ WEXITSTATUS(proc.status) = ExecvpErrno(req.file)
            /\ req.file = "/nonexistent" => WEXITSTATUS(proc.status) = ENOENT)
    /\ (BlockedOnFailingChild ~> WaitReturnedExecErrno)

\* A blocking pty_waitpid has returned the pid of a child whose execvp found
\* no such file, with ENOENT as exit status.
C4_Witness ==
    /\ req.file = "/nonexistent"
    /\ ExecFailed
    /\ WaitReturnedExecErrno
    /\ WEXITSTATUS(wstatus) = ENOENT

\* C8: no step changes the calling process's environment or working
\* directory: chdir, setenv and unsetenv act on the child's copies only.
C8_ParentUntouched ==
    [][/\ environ'["parent"] = environ["parent"]
       /\ cwd'["parent"] = cwd["parent"]]_vars

\* pty_spawn has returned to the parent while the child has changed both
\* its directory and its environment.
C8_Witness ==
    /\ Returned("parent")
    /\ Forked
    /\ cwd["child"] # cwd["parent"]
    /\ environ["child"] # environ["parent"]

\* C9: when forkpty fails, pty_spawn returns {-1, -1, errno of the failure},
\* there is no child, and no pseudo-terminal or descriptor of it is left in
\* the calling process.
C9_FailureLeavesNothing ==
    /\ [](\A p \in Procs : (Returned(p) /\ Result(p).pid = -1) =>
            /\ Result(p).master_fd = -1
            /\ Result(p).error \in {ENOSPC, EAGAIN}
            /\ ~Forked
            /\ pc["child"] = "none"
            /\ fds = {}
            /\ ~pty.alloc)
    /\ [][\A p \in Procs : (~Returned(p) /\ Returned(p)' /\ Result(p)'.pid = -1) =>
            Result(p)'.error = errno[p]]_vars

\* A failed pty_spawn has returned the errno of a failed fork.
C9_Witness ==
    /\ Returned("parent")
    /\ Result("parent") = [master_fd |-> -1, pid |-> -1, error |-> EAGAIN]
    /\ fds = {}

ParentView == <<retval["parent"], local["parent"], errno["parent"], ret, wstatus,
                environ["parent"], cwd["parent"]>>

\* C10: once forkpty has succeeded the parent can return at once, whatever
\* the child has done so far; what it returns is {master descriptor, child
\* pid, 0}, also when the child has already failed; and no step of the child
\* changes anything the parent sees of the call: the failure shows only in
\* the status pty_waitpid hands out.
C10_ParentDoesNotWait ==
    /\ []((Forked /\ pc["parent"] = "forked") => ENABLED SpawnParent("parent"))
    /\ []((Forked /\ Returned("parent")) =>
            Result("parent") = [master_fd |-> MasterFd, pid |-> proc.pid, error |-> 0])
    /\ [][ChildStep("child") => ParentView' = ParentView]_vars
    /\ [][(wstatus' # wstatus) => (pc["parent"] = "waitpid" /\ wstatus' = proc.status)]_vars

\* The parent has the success result of a child that failed chdir, and has
\* not called pty_waitpid.
C10_Witness ==
    /\ Returned("parent")
    /\ Result("parent") = [master_fd |-> MasterFd, pid |-> ChildPid, error |-> 0]
    /\ ChdirFailed
    /\ proc.state = "zombie"
    /\ wstatus = 0 /\ ret = 0

-----------------------------------------------------------------------------
(* What the override list means, stated without the loop: the key of an    *)
(* entry is its longest prefix free of '=', its value what follows that     *)
(* '='; for each name the last entry with that key decides.                 *)
Max(S) == CHOOSE x \in S : \A y \in S : y <= x
KeyLen(entry) ==
    Max({n \in 0..Len(entry) : \A j \in 1..n : entry[j] # "="})
HasEq(entry) == KeyLen(entry) < Len(entry)
KeyPart(entry) == [j \in 1..KeyLen(entry) |-> entry[j]]
ValuePart(entry) ==
    [j \in 1..(Len(entry) - KeyLen(entry) - 1) |-> entry[j + KeyLen(entry) + 1]]
IsKeyValue(entry) == HasEq(entry) /\ KeyLen(entry) > 0

Overrides == IF req.envp = NULL THEN <<>> ELSE Deref(req.envp)
Naming(name) ==
    {k \in 1..Len(Overrides) :
        IsKeyValue(Overrides[k]) /\ KeyPart(Overrides[k]) = name}
LastValue(name) == ValuePart(Overrides[Max(Naming(name))])

\* The inherited environment after the TERM default step.
Inherited == environ["parent"]
WithTermDefault ==
    [n \in (DOMAIN Inherited) \cup {TERM} |->
        IF n \in DOMAIN Inherited THEN Inherited[n] ELSE XTERM_256COLOR]

Overridden ==
    LET base == WithTermDefault
        names == (DOMAIN base) \cup
                 {KeyPart(Overrides[k]) :
                     k \in {j \in 1..Len(Overrides) : IsKeyValue(Overrides[j])}}
        set(n) == IF Naming(n) = {} THEN n \in DOMAIN base
                  ELSE LastValue(n) # <<>>
    IN  [n \in {x \in names : set(x)} |->
            IF Naming(n) = {} THEN base[n] ELSE LastValue(n)]

\* C6: the environment execvp is called with is the inherited environment
\* after the TERM default, with the entries of envp applied in order: an
\* entry KEY=VALUE removes KEY when VALUE is empty and sets it otherwise,
\* split at the first '=', the last entry for a key deciding.  With
\* <<"FOO=bar", "FOO=">> FOO is not in it.
C6_OverridesApplied ==
    InLog("execvp") =>
        /\ environ["child"] = Overridden
        /\ image # NULL => Deref(image).env = Overridden
        /\ req.envp = Ref(<<S_FOO_bar, S_FOO_empty>>) =>
              FOO \notin DOMAIN environ["child"]

\* The program runs without FOO, which the parent has and "FOO=bar" set
\* again, after <<"FOO=bar", "FOO=">>.
C6_Witness ==
    /\ image # NULL
    /\ req.envp = Ref(<<S_FOO_bar, S_FOO_empty>>)
    /\ FOO \in DOMAIN Inherited
    /\ FOO \notin DOMAIN Deref(image).env

TermObserved == Getenv(environ["child"], TERM)
SettingTerm == {k \in Naming(TERM) : ValuePart(Overrides[k]) # <<>>}

\* C7 as stated: TERM is the value of the override that sets it to a
\* non-empty value; otherwise the inherited TERM when there is one;
\* otherwise, with no override naming TERM, the default.
C7_AsStated ==
    InLog("execvp") =>
        IF SettingTerm # {}
        THEN TermObserved = Ref(ValuePart(Overrides[Max(SettingTerm)]))
        ELSE IF TERM \in DOMAIN Inherited
        THEN TermObserved = Ref(Inherited[TERM])
        ELSE Naming(TERM) = {} => TermObserved = Ref(XTERM_256COLOR)

\* C7, amended: the last override naming TERM decides: its value when that
\* is non-empty, no TERM at all when it is empty; with no override naming
\* TERM, the inherited TERM when there is one and the default otherwise.
C7_TermObserved ==
    InLog("execvp") =>
        IF Naming(TERM) # {}
        THEN IF LastValue(TERM) # <<>>
             THEN TermObserved = Ref(LastValue(TERM))
             ELSE TermObserved = NULL
        ELSE IF TERM \in DOMAIN Inherited
        THEN TermObserved = Ref(Inherited[TERM])
        ELSE TermObserved = Ref(XTERM_256COLOR)

\* The program runs with TERM=linux from the override, though TERM was
\* inherited with another value.
C7_Witness ==
    /\ image # NULL
    /\ req.envp = Ref(<<S_TERM_linux>>)
    /\ TERM \in DOMAIN Inherited
    /\ Getenv(Deref(image).env, TERM) = Ref(<<"l","i","n","u","x">>)

-----------------------------------------------------------------------------
\* A pty_waitpid(pid, &status, WNOHANG) is about to return for a child that
\* is still running.
PollOfRunningChild ==
    /\ pc["parent"] = "waitpid"
    /\ wopts = WNOHANG
    /\ proc.state = "alive"

\* The parent is in a pty_waitpid, after an earlier poll found the child
\* running, and the child has exited since.
WaitAfterPoll ==
    /\ polled
    /\ pc["parent"] = "waitpid"
    /\ proc.state = "zombie"

WaitReturnedStatus ==
    /\ pc["parent"] = "caller"
    /\ proc.state = "reaped"
    /\ ret = proc.pid
    /\ wstatus = proc.status

\* C11: a pty_waitpid with WNOHANG on a child that is still running returns
\* without blocking, returns 0, and leaves the child running and un-reaped
\* (the process entry, the child's position and the status word are
\* untouched); a later wait, once the child has exited, returns the pid and
\* the child's status.
C11_PollLeavesChild ==
    /\ [](PollOfRunningChild => ENABLED PtyWaitpid("parent"))
    /\ [][(PollOfRunningChild /\ PtyWaitpid("parent"))
            => /\ ret' = 0
               /\ pc'["parent"] = "caller"
               /\ proc' = proc
               /\ pc'["child"] = pc["child"]
               /\ wstatus' = wstatus]_vars
    /\ [][(WaitAfterPoll /\ PtyWaitpid("parent")) => WaitReturnedStatus']_vars
    /\ (WaitAfterPoll ~> (polled /\ WaitReturnedStatus))

\* A poll returned 0 while the child ran, and a later wait returned the pid
\* with the status of a child that exited with code 2.
C11_Witness ==
    /\ polled
    /\ WaitReturnedStatus
    /\ ret = ChildPid
    /\ WIFEXITED(wstatus)
    /\ WEXITSTATUS(wstatus) = 2

-----------------------------------------------------------------------------
\* What a size query on the terminal (TIOCGWINSZ) reports.
Rows == pty.ws.ws_row
Cols == pty.ws.ws_col

\* The step is a pty_resize(master_fd, rows, cols) of the caller.
ResizeStep(rows, cols) == PtyResize("parent", rows, cols)
SuccessfulResizeStep == \E sz \in Sizes : ResizeStep(sz[1], sz[2]) /\ ret' = 0

\* C12: a pty_resize(master_fd, rows, cols) that returns 0 leaves the
\* terminal with exactly rows and cols; one that returns failure (-1) leaves
\* the terminal's size as it was; and once the terminal exists, no step other
\* than a successful pty_resize changes its size, so every later size query
\* reports the rows and cols of the last successful resize.
C12_ResizeTakesEffect ==
    /\ [][\A sz \in Sizes :
            ResizeStep(sz[1], sz[2])
            => IF ret' = 0
               THEN Rows' = sz[1] /\ Cols' = sz[2]
               ELSE ret' = -1 /\ pty'.ws = pty.ws]_vars
    /\ [][(pty.alloc /\ ~SuccessfulResizeStep) => pty'.ws = pty.ws]_vars

\* The terminal was resized to 50 x 132 after a spawn that asked for 24 x 80,
\* the descriptor was closed, and a later call on it failed: the size of the
\* last successful resize is still in effect.
C12_Witness ==
    /\ Returned("parent")
    /\ req.winsize_settings # NULL
    /\ Rows = 50 /\ Cols = 132
    /\ fds = {}
    /\ ret = -1
    /\ errno["parent"] = EBADF

-----------------------------------------------------------------------------
\* The attributes the caller supplied, and those the slave side has.
Supplied == Deref(req.termios_settings)
Applied == pty.term
CopiedSlots == 1..Min(NCCS, CC_MAX)

-----------------------------------------------------------------------------
\* The caller holds the failure indicator (-1) of the pty_resize, pty_kill,
\* pty_waitpid or pty_close it called last.
FailureInHand == pc["parent"] = "caller" /\ ret = -1

\* The step is the return of a failed pty_spawn to the caller.
SpawnFailureStep ==
    /\ ~Returned("parent")
    /\ Returned("parent")'
    /\ Result("parent")'.pid = -1

\* The error codes the operations fail with.
FailureCodes == {EBADF, ESRCH, ECHILD, ENOSPC, EAGAIN}

\* C14: whenever the calling thread holds the failure indicator of its latest
\* operation, its errno is an error code of a failure, and when pty_spawn
\* returns failure it is the code the result carries; no step of another
\* thread changes the calling thread's errno or what its calls returned; and
\* pty_get_errno returns the calling thread's errno, leaving it as it is.  So
\* a pty_get_errno that follows a failure on the same thread returns that
\* failure's code, whatever other threads did in between.
C14_ErrnoPerThread ==
    /\ [](FailureInHand => errno["parent"] \in FailureCodes)
    /\ [][SpawnFailureStep
            => /\ errno'["parent"] \in FailureCodes
               /\ errno'["parent"] = Result("parent")'.error]_vars
    /\ [][ThreadStep(OtherThread)
            => errno'["parent"] = errno["parent"] /\ ret' = ret]_vars
    /\ [][PtyGetErrno("parent")
            => ret' = errno["parent"] /\ errno' = errno]_vars

\* The caller's pty_waitpid failed with ECHILD, another thread's pty_kill
\* failed with ESRCH, and the caller's pty_get_errno has returned ECHILD.
C14_Witness ==
    /\ pc["parent"] = "caller"
    /\ errno[OtherThread] = ESRCH
    /\ errno["parent"] = ECHILD
    /\ ret = ECHILD

-----------------------------------------------------------------------------
\* The step is a pty_kill(result.pid, signal) of the caller.
KillStep(signal) == PtyKill("parent", signal)
KillPid == ResultPid("parent")

\* C15: a pty_kill(pid, signal) step changes nothing but the target process,
\* the return value and, on failure, errno; it returns what kill returns: 0
\* for the pid of the running child, with the child untouched for signal 0
\* and terminated by that very signal otherwise, and -1 with ESRCH where the
\* pid names no process, as the pid of a child already reaped does; and with
\* the pid = -1 of a failed pty_spawn the call is still made, so that it can
\* return 0, the success of kill's broadcast.
C15_KillPassthrough ==
    /\ [][\A signal \in Signals :
            KillStep(signal)
            => /\ UNCHANGED <<req, local, environ, cwd, fds, pty, image,
                              retval, wstatus, wopts>>
               /\ ret' \in {0, -1}
               /\ ret' = 0 => errno' = errno
               /\ ret' = -1 => /\ errno' = [errno EXCEPT !["parent"] = ESRCH]
                               /\ proc' = proc
               /\ (KillPid = proc.pid /\ proc.state = "alive")
                  => /\ ret' = 0
                     /\ signal = 0 => proc' = proc
                     /\ signal # 0 => /\ proc'.state = "zombie"
                                      /\ WIFSIGNALED(proc'.status)
                                      /\ WTERMSIG(proc'.status) = signal
               /\ (KillPid = proc.pid /\ proc.state = "reaped") => ret' = -1]_vars
    /\ []((Spawned("parent") /\ KillPid = -1)
            => ENABLED (KillStep(SIGKILL) /\ ret' = 0))

\* After a failed pty_spawn a call on the descriptor -1 has failed, and then
\* a pty_kill with the pid -1 has returned 0.
C15_Witness ==
    /\ Spawned("parent")
    /\ KillPid = -1
    /\ errno["parent"] = EBADF
    /\ ret = 0

-----------------------------------------------------------------------------
\* The child is at the image-replacement step: through the loop and about
\* to call execvp, or past the call.
AtImageReplacement ==
    \/ pc["child"] = "env" /\ ~MoreEntries("child")
    \/ InLog("execvp")
TermDefined == TERM \in DOMAIN environ["child"]

\* C16: the TERM default step comes before every override step; hence at the
\* image-replacement step TERM is defined when no entry of envp names TERM,
\* and TERM is absent when the last entry naming TERM has an empty value
\* ("TERM="), whether or not TERM was inherited: the default is not applied a
\* second time.
C16_TermDefaultFirst ==
    /\ \A j, k \in 1..Len(log) :
          (log[j] = "term" /\ log[k] = "override") => j < k
    /\ InLog("override") => InLog("term")
    /\ AtImageReplacement =>
          /\ Naming(TERM) = {} => TermDefined
          /\ (Naming(TERM) # {} /\ LastValue(TERM) = <<>>) => ~TermDefined

\* The program runs without TERM after <<"TERM=linux", "TERM=">>, in a
\* process that inherited no TERM and so got the default first.
C16_Witness ==
    /\ image # NULL
    /\ req.envp = Ref(<<S_TERM_linux, S_TERM_empty>>)
    /\ TERM \notin DOMAIN Inherited
    /\ log = <<"forkpty", "term", "override", "override", "execvp">>
    /\ TERM \notin DOMAIN Deref(image).env

-----------------------------------------------------------------------------
\* chdir or execvp has failed in the child, and the parent has obtained the
\* child's status through pty_waitpid.
ChildPathFailed == ChdirFailed \/ ExecFailed
StatusObtained == proc.state = "reaped" /\ wstatus = proc.status

\* The exit status a parent reads after _exit(code).
ExitStatusOf(code) == WEXITSTATUS(W_EXITCODE(code, 0))

\* C17: _exit(code) gives the exit status code mod 256, which is not 0 for a
\* code in 1..255; the status the parent obtains after a failed chdir or a
\* failed execvp is that of a normal exit with the failure's errno mod 256,
\* and is not 0; a status of 0 obtained by the parent comes from a program
\* that was started.
C17_FailureStatusNonZero ==
    /\ \A e \in 0..MaxErrno :
          /\ ExitStatusOf(e) = e % 256
          /\ e \in 1..255 => ExitStatusOf(e) # 0
    /\ (ChildPathFailed /\ StatusObtained)
          => /\ WIFEXITED(wstatus)
             /\ WEXITSTATUS(wstatus) = errno["child"] % 256
             /\ WEXITSTATUS(wstatus) # 0
    /\ (StatusObtained /\ WIFEXITED(wstatus) /\ WEXITSTATUS(wstatus) = 0)
          => image # NULL

\* The parent has obtained exit status EACCES from a child whose execvp was
\* refused.
C17_Witness ==
    /\ ExecFailed
    /\ StatusObtained
    /\ ret = ChildPid
    /\ WIFEXITED(wstatus)
    /\ WEXITSTATUS(wstatus) = EACCES

-----------------------------------------------------------------------------
\* The pixel dimensions of the terminal's window size.
Pixels == <<pty.ws.ws_xpixel, pty.ws.ws_ypixel>>
SpawnPixels ==
    <<Deref(req.winsize_settings).ws_xpixel,
      Deref(req.winsize_settings).ws_ypixel>>

\* C18: every pty_resize that returns 0 leaves both pixel dimensions of the
\* terminal 0, whatever they were; pixel dimensions other than 0 are those
\* of the WindowSize given to pty_spawn, on a terminal that no pty_resize
\* has changed since (its rows and columns are still the spawn's too).
C18_ResizeZeroesPixels ==
    /\ [][\A sz \in Sizes :
            (ResizeStep(sz[1], sz[2]) /\ ret' = 0) => Pixels' = <<0, 0>>]_vars
    /\ [](Pixels # <<0, 0>>
            => /\ req.winsize_settings # NULL
               /\ Pixels = SpawnPixels
               /\ pty.ws = MakeWinsize(Deref(req.winsize_settings)))
    /\ [][(pty.alloc /\ Pixels = <<0, 0>>) => Pixels' = <<0, 0>>]_vars

\* A terminal spawned with 640 x 480 pixels has been resized to 30 x 100:
\* its pixel dimensions are 0.
C18_Witness ==
    /\ Returned("parent")
    /\ req.winsize_settings # NULL
    /\ SpawnPixels = <<640, 480>>
    /\ Rows = 30 /\ Cols = 100
    /\ Pixels = <<0, 0>>

-----------------------------------------------------------------------------
\* The entry the loop is at, and the step that processes it.
CurrentEntry == Overrides[local["child"].i + 1]
NoEqEntryStep ==
    /\ pc["child"] = "env"
    /\ MoreEntries("child")
    /\ ~HasEq(CurrentEntry)
    /\ ChildEnvEntry("child")

\* The environment after the entries of list, in order.
RECURSIVE ApplyAll(_, _)
ApplyAll(env, list) ==
    IF list = <<>> THEN env
    ELSE ApplyAll(ApplyEntry(env, Head(list)), Tail(list))

\* C19: the loop step for an entry without '=' changes no environment and no
\* errno and moves on to the next entry; the loop cannot get stuck, and it is
\* left only when every entry has had its step; so at the image-replacement
\* step the child's environment is what the entries that do have an '=' make
\* of it, the ones behind an entry without '=' included, and execvp is
\* attempted.
C19_NoEqSkipped ==
    /\ [][NoEqEntryStep
            => /\ environ' = environ
               /\ errno' = errno
               /\ local'["child"].i = local["child"].i + 1
               /\ pc'["child"] = "env"]_vars
    /\ [](pc["child"] = "env" => ENABLED ChildStep("child"))
    /\ [](AtImageReplacement
            => /\ Count("override") = NumOverrides
               /\ environ["child"] =
                     ApplyAll(WithTermDefault, SelectSeq(Overrides, HasEq)))
    /\ []((pc["child"] = "env" /\ ~MoreEntries("child"))
            => ENABLED (ChildExecvp("child") \/ ChildExecvpFailed("child")))

\* The program runs with FOO=bar from the entry behind an entry "FOO", in a
\* process that inherited another FOO.
C19_Witness ==
    /\ image # NULL
    /\ req.envp = Ref(<<S_NOEQ, S_FOO_bar>>)
    /\ FOO \in DOMAIN Inherited
    /\ Count("override") = 2
    /\ Getenv(Deref(image).env, FOO) = Ref(<<"b","a","r">>)

====
